---- MODULE Spec2Model ----
(***************************************************************************)
(* Full-document text search of the PDF viewer component                   *)
(* (src/src/components/PDFViewer.tsx, the version starting at line 283):   *)
(* component state, the document life cycle, the asynchronous              *)
(* executeSearch with its suspension points, and result navigation.        *)
(*                                                                         *)
(* Strings are sequences of one-character strings so that trim,            *)
(* toLowerCase and includes are computed character by character.           *)
(***************************************************************************)
EXTENDS Integers, Sequences, FiniteSets, TLC

(***************************************************************************)
(* Bounds of the model                                                     *)
(***************************************************************************)
\* handleZoomIn / handleZoomOut: the scale in steps of 0.25
ScaleStep == 1
ScaleMin == 2
ScaleMax == 12
ScaleDefault == 4

\* number of document changes a behaviour may contain
MaxDocChanges == 2
\* largest value searchInstanceKey may reach
MaxKey == 2
\* zoom steps away from the default scale that the model follows
MaxZoomSteps == 1
\* number of executeSearch invocations that may be suspended at the same time
MaxTasks == 2
\* useState<number>(800)
ContainerWidthDefault == 800
\* the padding taken off clientWidth
ContainerPadding == 48

\* strokes drawn on the signature pad
MaxStrokes == 2
\* presses of Save Signature and of Clear
MaxPresses == 2
\* messages added to the store
MaxMessages == 3
\* milliseconds the clock advances
MaxClock == 2

\* length of the item text drawn by InitRender
MaxTextLen == 3
\* length of the query drawn by InitRender
MaxQueryLen == 2
\* pages of a corpus drawn by InitScan
MaxPages == 2
\* text items per page of a corpus drawn by InitScan
MaxItems == 2

(***************************************************************************)
(* Strings                                                                 *)
(***************************************************************************)
\* String.prototype.toLowerCase, one character
LowerChar(c) ==
  IF c = "A" THEN "a" ELSE IF c = "B" THEN "b" ELSE c

\* String.prototype.toLowerCase
ToLowerCase(s) == [k \in 1..Len(s) |-> LowerChar(s[k])]

IsWhite(c) == c = " "

RECURSIVE TrimStart(_)
TrimStart(s) ==
  IF s = <<>> THEN <<>>
  ELSE IF IsWhite(Head(s)) THEN TrimStart(Tail(s)) ELSE s

RECURSIVE TrimEnd(_)
TrimEnd(s) ==
  IF s = <<>> THEN <<>>
  ELSE IF IsWhite(s[Len(s)]) THEN TrimEnd(SubSeq(s, 1, Len(s) - 1)) ELSE s

\* String.prototype.trim
Trim(s) == TrimEnd(TrimStart(s))

\* String.prototype.includes: q occurs in s at some offset
Includes(s, q) ==
  \E k \in 0..(Len(s) - Len(q)) : SubSeq(s, k + 1, k + Len(q)) = q

(***************************************************************************)
(* Status messages of executeSearch                                        *)
(***************************************************************************)
MsgNone == ""
MsgNotLoaded == "Document not loaded."
MsgNoResults == "No results found."
MsgError == "Error occurred during search."
MsgFound(n) == ToString(n) \o " result(s) found."

(***************************************************************************)
(* Documents the user can select.  A document is a sequence of pages, a    *)
(* page the sequence of the str fields of its text items.                  *)
(***************************************************************************)
Library ==
  << \* 1: two pages, matches on both
     << << <<"a", "B">>, <<"b">>, <<"A", " ", "a">> >>,
        << <<"c">>, <<"B", "a">> >> >>,
     \* 2: one page
     << << <<"b">>, <<"a">> >> >>,
     \* 3: no pages
     << >> >>

\* values of the search input
Queries ==
  { <<>>, <<" ">>, <<"a">>, <<"A", " ">>, <<"z">> }

\* text items and queries of the corpora drawn by InitScan
ScanTexts == { <<>>, <<"a">>, <<"A", "b">>, <<"b", " ", "a">> }
ScanQueries ==
  { <<"a">>, <<"A">>, <<" ", "A">>, <<"b", " ">>, <<"a", "B">>, <<"b", " ", "A">>, <<"z">> }

SeqsUpTo(S, n) == UNION { [1..m -> S] : m \in 0..n }

\* item texts and queries drawn by InitRender
RenderTexts == SeqsUpTo({"a", "A", "b", "."}, MaxTextLen)
RenderQueries == SeqsUpTo({"a", "A", "b", ".", " "}, MaxQueryLen) \ {<<>>}
ScanCorpora == SeqsUpTo(SeqsUpTo(ScanTexts, MaxItems), MaxPages)

VARIABLES
  docs,               \* the documents of the store, by id
  currentDocument,    \* useStore().currentDocument, 0 = null
  loadPending,        \* document the <Document> component is loading, 0 = none
  docEpoch,           \* number of document changes so far
  numPages, pdfProxy, scale, isDocumentLoaded, isLoading, error,
  containerWidth,
  searchQuery, searchResults, currentResultIndex, totalResults,
  isSearching, searchMessage, searchInstanceKey,
  tasks,              \* suspended executeSearch invocations
  signaturePad,       \* SignaturePad: the strokes on the canvas
  onSaveCalls,        \* the arguments onSave was called with
  onClearCalls,       \* the number of calls of onClear
  alertCalls,         \* the arguments window.alert was called with
  messages,           \* useStore().messages
  now,                \* the clock read by Date.now(), in milliseconds
  resultsFrom,        \* history: the search that published searchResults
  lastEv              \* the handler or continuation that ran last

vars ==
  << docs, currentDocument, loadPending, docEpoch,
     numPages, pdfProxy, scale, isDocumentLoaded, isLoading, error,
     containerWidth,
     searchQuery, searchResults, resultsFrom, currentResultIndex, totalResults,
     isSearching, searchMessage, searchInstanceKey, tasks,
     signaturePad, onSaveCalls, onClearCalls, alertCalls, messages, now,
     lastEv >>

padVars == << signaturePad, onSaveCalls, onClearCalls, alertCalls >>

chatVars == << messages, now >>

docVars == << currentDocument, loadPending, docEpoch, numPages, pdfProxy,
              scale, isDocumentLoaded, isLoading, error >>

DocIds == DOMAIN docs

\* pdf.numPages of a document proxy
ProxyNumPages(p) == Len(docs[p])

\* textContent.items of page i of a document proxy
TextContentItems(p, i) == docs[p][i]

\* what the last step was; the fields not used by a step are blank
Ev(op, t, pre) ==
  [ op |-> op, epoch |-> t.epoch, proxy |-> t.proxy, rawQuery |-> t.rawQuery,
    page |-> t.i, later |-> t.later, pos |-> 0, preTotal |-> pre[1],
    preIndex |-> pre[2], preTasks |-> pre[3] ]

\* a continuation of the suspended invocation at position n
EvAt(op, t, pre, n) == [ Ev(op, t, pre) EXCEPT !.pos = n ]

NoTask ==
  [ epoch |-> 0, proxy |-> 0, rawQuery |-> <<>>, query |-> <<>>,
    i |-> 0, pc |-> "none", newResults |-> <<>>, later |-> <<>> ]

\* no search has published the result set
NoSearch == [ proxy |-> 0, rawQuery |-> <<>> ]

\* the search of invocation t, when it published results
SearchOf(t, newResults) ==
  IF newResults = <<>> THEN NoSearch
  ELSE [ proxy |-> t.proxy, rawQuery |-> t.rawQuery ]

\* history: the invocations of the same document load that are pending when
\* invocation t starts get t's query noted in their field later; the note
\* is dropped when the invocation it names rejects
NoteLater(ts, t) ==
  [ n \in DOMAIN ts |->
      IF ts[n].epoch = t.epoch THEN [ts[n] EXCEPT !.later = <<t.rawQuery>>]
      ELSE ts[n] ]

ForgetLater(ts, n) ==
  [ m \in DOMAIN ts |->
      IF /\ ts[m].epoch = ts[n].epoch
         /\ ~\E l \in DOMAIN ts : l > n /\ ts[l].epoch = ts[n].epoch
      THEN [ts[m] EXCEPT !.later = <<>>]
      ELSE ts[m] ]

Pre == << totalResults, currentResultIndex, Len(tasks) >>

\* SignaturePadComponent after its mount effect: a blank canvas
InitPad ==
  /\ signaturePad = <<>>
  /\ onSaveCalls = <<>>
  /\ onClearCalls = 0
  /\ alertCalls = <<>>

\* useStore: messages: []
InitChat ==
  /\ messages = <<>>
  /\ now = 0

(***************************************************************************)
(* Initial state: the component is mounted and no document is selected.    *)
(***************************************************************************)
InitState(d) ==
  /\ docs = d
  /\ currentDocument = 0
  /\ loadPending = 0
  /\ docEpoch = 0
  /\ numPages = 0
  /\ pdfProxy = 0
  /\ scale = ScaleDefault
  /\ isDocumentLoaded = FALSE
  /\ isLoading = FALSE
  /\ error = FALSE
  /\ containerWidth = ContainerWidthDefault
  /\ InitPad
  /\ InitChat
  /\ searchQuery = <<>>
  /\ searchResults = <<>>
  /\ resultsFrom = NoSearch
  /\ currentResultIndex = -1
  /\ totalResults = 0
  /\ isSearching = FALSE
  /\ searchMessage = MsgNone
  /\ searchInstanceKey = 0
  /\ tasks = <<>>
  /\ lastEv = Ev("mount", NoTask, <<0, -1, 0>>)

Init == InitState(Library)

(***************************************************************************)
(* Document life cycle                                                     *)
(***************************************************************************)
\* AppSidebar: setCurrentDocument(doc), followed by the effect on
\* [currentDocument], which resets the viewer and the search state.
SetCurrentDocument(d) ==
  /\ d # currentDocument
  /\ docEpoch < MaxDocChanges
  /\ currentDocument' = d
  /\ loadPending' = d
  /\ docEpoch' = docEpoch + 1
  /\ isDocumentLoaded' = FALSE
  /\ numPages' = 0
  /\ pdfProxy' = 0
  /\ scale' = ScaleDefault
  /\ isLoading' = FALSE
  /\ error' = FALSE
  /\ searchQuery' = <<>>
  /\ searchResults' = <<>>
  /\ resultsFrom' = NoSearch
  /\ currentResultIndex' = -1
  /\ totalResults' = 0
  /\ isSearching' = FALSE
  /\ searchMessage' = MsgNone
  /\ lastEv' = Ev("setCurrentDocument", NoTask, Pre)
  /\ UNCHANGED << docs, padVars, chatVars, containerWidth,
                  searchInstanceKey, tasks >>

OnDocumentLoadStart ==
  /\ loadPending # 0
  /\ isLoading' = TRUE
  /\ error' = FALSE
  /\ isDocumentLoaded' = FALSE
  /\ lastEv' = Ev("loadStart", NoTask, Pre)
  /\ UNCHANGED << docs, padVars, chatVars, containerWidth,
                  currentDocument, loadPending, docEpoch, numPages,
                  pdfProxy, scale, searchQuery, searchResults, resultsFrom,
                  currentResultIndex, totalResults, isSearching,
                  searchMessage, searchInstanceKey, tasks >>

OnDocumentLoadSuccess ==
  /\ loadPending # 0
  /\ numPages' = ProxyNumPages(loadPending)
  /\ pdfProxy' = loadPending
  /\ isDocumentLoaded' = TRUE
  /\ isLoading' = FALSE
  /\ error' = FALSE
  /\ searchQuery' = <<>>
  /\ searchResults' = <<>>
  /\ resultsFrom' = NoSearch
  /\ currentResultIndex' = -1
  /\ totalResults' = 0
  /\ isSearching' = FALSE
  /\ searchMessage' = MsgNone
  /\ loadPending' = 0
  /\ lastEv' = Ev("loadSuccess", NoTask, Pre)
  /\ UNCHANGED << docs, padVars, chatVars, containerWidth,
                  currentDocument, docEpoch, scale,
                  searchInstanceKey, tasks >>

OnDocumentLoadError ==
  /\ loadPending # 0
  /\ isDocumentLoaded' = FALSE
  /\ isLoading' = FALSE
  /\ error' = TRUE
  /\ loadPending' = 0
  /\ lastEv' = Ev("loadError", NoTask, Pre)
  /\ UNCHANGED << docs, padVars, chatVars, containerWidth,
                  currentDocument, docEpoch, numPages, pdfProxy, scale,
                  searchQuery, searchResults, resultsFrom, currentResultIndex,
                  totalResults, isSearching, searchMessage,
                  searchInstanceKey, tasks >>

\* the widths the container can take
ClientWidths == {848, 1248}

\* the resize listener of lines 315-325
UpdateContainerWidth(clientWidth) ==
  /\ containerWidth' = clientWidth - ContainerPadding
  /\ lastEv' = Ev("resize", NoTask, Pre)
  /\ UNCHANGED << docs, padVars, chatVars, docVars, searchQuery, searchResults,
                  resultsFrom, currentResultIndex, totalResults, isSearching,
                  searchMessage, searchInstanceKey, tasks >>

\* window.print(); the button is disabled until the document is loaded
HandlePrint ==
  /\ isDocumentLoaded
  /\ lastEv' = Ev("print", NoTask, Pre)
  /\ UNCHANGED << docs, padVars, chatVars, containerWidth,
                  docVars, searchQuery, searchResults,
                  resultsFrom, currentResultIndex, totalResults, isSearching,
                  searchMessage, searchInstanceKey, tasks >>

Min(a, b) == IF a < b THEN a ELSE b
Max(a, b) == IF a > b THEN a ELSE b

\* the zoom buttons are disabled until the document is loaded
HandleZoomIn ==
  /\ isDocumentLoaded
  /\ scale < ScaleDefault + MaxZoomSteps * ScaleStep
  /\ scale' = Min(scale + ScaleStep, ScaleMax)
  /\ lastEv' = Ev("zoomIn", NoTask, Pre)
  /\ UNCHANGED << docs, padVars, chatVars, containerWidth,
                  currentDocument, loadPending, docEpoch, numPages,
                  pdfProxy, isDocumentLoaded, isLoading, error, searchQuery,
                  searchResults, resultsFrom, currentResultIndex, totalResults,
                  isSearching, searchMessage, searchInstanceKey, tasks >>

HandleZoomOut ==
  /\ isDocumentLoaded
  /\ scale > ScaleDefault - MaxZoomSteps * ScaleStep
  /\ scale' = Max(scale - ScaleStep, ScaleMin)
  /\ lastEv' = Ev("zoomOut", NoTask, Pre)
  /\ UNCHANGED << docs, padVars, chatVars, containerWidth,
                  currentDocument, loadPending, docEpoch, numPages,
                  pdfProxy, isDocumentLoaded, isLoading, error, searchQuery,
                  searchResults, resultsFrom, currentResultIndex, totalResults,
                  isSearching, searchMessage, searchInstanceKey, tasks >>

(***************************************************************************)
(* Query input                                                             *)
(***************************************************************************)
\* a run of executeSearch or a query clear may still bump searchInstanceKey
KeyAvailable == searchInstanceKey + Len(tasks) < MaxKey

\* the input handler that forgets the cursor when the query is cleared
HandleSearchInputChange_KeepsCursor(newQuery) ==
  /\ newQuery = <<>> => KeyAvailable
  /\ searchQuery' = newQuery
  /\ IF newQuery = <<>>
     THEN /\ searchResults' = <<>>
          /\ resultsFrom' = NoSearch
          /\ totalResults' = 0
          /\ searchMessage' = MsgNone
          /\ searchInstanceKey' = searchInstanceKey + 1
          /\ UNCHANGED currentResultIndex
     ELSE UNCHANGED << searchResults, resultsFrom, totalResults, currentResultIndex,
                       searchMessage, searchInstanceKey >>
  /\ lastEv' = Ev("inputChange", [NoTask EXCEPT !.rawQuery = newQuery], Pre)
  /\ UNCHANGED << docs, padVars, chatVars, containerWidth,
                  docVars, isSearching, tasks >>

\* the input handler that drops the results and the cursor on every edit
HandleSearchInputChange_ClearsOnEdit(newQuery) ==
  /\ newQuery = <<>> => KeyAvailable
  /\ searchQuery' = newQuery
  /\ searchResults' = <<>>
  /\ resultsFrom' = NoSearch
  /\ totalResults' = 0
  /\ currentResultIndex' = -1
  /\ searchMessage' = MsgNone
  /\ searchInstanceKey' =
       IF newQuery = <<>> THEN searchInstanceKey + 1 ELSE searchInstanceKey
  /\ lastEv' = Ev("inputChange", [NoTask EXCEPT !.rawQuery = newQuery], Pre)
  /\ UNCHANGED << docs, padVars, chatVars, containerWidth,
                  docVars, isSearching, tasks >>

\* lines 397-407
HandleSearchInputChange(newQuery) ==
  /\ newQuery = <<>> => KeyAvailable
  /\ searchQuery' = newQuery
  /\ IF newQuery = <<>>
     THEN /\ searchResults' = <<>>
          /\ resultsFrom' = NoSearch
          /\ totalResults' = 0
          /\ currentResultIndex' = -1
          /\ searchMessage' = MsgNone
          /\ searchInstanceKey' = searchInstanceKey + 1
     ELSE UNCHANGED << searchResults, resultsFrom, totalResults, currentResultIndex,
                       searchMessage, searchInstanceKey >>
  /\ lastEv' = Ev("inputChange", [NoTask EXCEPT !.rawQuery = newQuery], Pre)
  /\ UNCHANGED << docs, padVars, chatVars, containerWidth,
                  docVars, isSearching, tasks >>

\* the input is disabled until the document is loaded and during a search
TypeQuery(newQuery) ==
  /\ isDocumentLoaded /\ ~isSearching
  /\ HandleSearchInputChange(newQuery)

(***************************************************************************)
(* executeSearch                                                           *)
(***************************************************************************)
\* a result that counts the items of a page from one
SearchResult_OneBased(i, itemIndex) ==
  [ pageIndex |-> i - 1, pageNumber |-> i, textItemIndex |-> itemIndex + 1 ]

\* line 435
SearchResult(i, itemIndex) ==
  [ pageIndex |-> i - 1, pageNumber |-> i, textItemIndex |-> itemIndex ]

\* forEach that compares item.str without lower-casing it
RECURSIVE ForEachItem_CaseSensitive(_, _, _, _, _)
ForEachItem_CaseSensitive(items, k, i, query, newResults) ==
  IF k > Len(items) THEN newResults
  ELSE ForEachItem_CaseSensitive(items, k + 1, i, query,
         IF Includes(items[k], query)
         THEN Append(newResults, SearchResult(i, k - 1))
         ELSE newResults)

\* forEach that puts each match in front of the earlier ones
RECURSIVE ForEachItem_Unshift(_, _, _, _, _)
ForEachItem_Unshift(items, k, i, query, newResults) ==
  IF k > Len(items) THEN newResults
  ELSE ForEachItem_Unshift(items, k + 1, i, query,
         IF Includes(ToLowerCase(items[k]), query)
         THEN <<SearchResult(i, k - 1)>> \o newResults
         ELSE newResults)

\* forEach that pushes one result for every occurrence of the query
RECURSIVE ForEachItem_PerOccurrence(_, _, _, _, _)
ForEachItem_PerOccurrence(items, k, i, query, newResults) ==
  IF k > Len(items) THEN newResults
  ELSE ForEachItem_PerOccurrence(items, k + 1, i, query,
         newResults \o
           [ n \in 1..Cardinality(
                     { o \in 0..(Len(items[k]) - Len(query)) :
                         SubSeq(ToLowerCase(items[k]), o + 1, o + Len(query))
                           = query })
             |-> SearchResult(i, k - 1) ])

\* textContent.items.forEach(...): k is itemIndex + 1
RECURSIVE ForEachItem(_, _, _, _, _)
ForEachItem(items, k, i, query, newResults) ==
  IF k > Len(items) THEN newResults
  ELSE ForEachItem(items, k + 1, i, query,
         IF Includes(ToLowerCase(items[k]), query)
         THEN Append(newResults, SearchResult(i, k - 1))
         ELSE newResults)

RemoveAt(s, k) == SubSeq(s, 1, k - 1) \o SubSeq(s, k + 1, Len(s))

\* the completion that reports a count also when nothing matched
Publish_AlwaysFound(newResults) ==
  /\ searchResults' = newResults
  /\ totalResults' = Len(newResults)
  /\ searchMessage' = MsgFound(Len(newResults))
  /\ searchInstanceKey' = searchInstanceKey + 1
  /\ isSearching' = FALSE

\* the completion that leaves the result count as it was
Publish_KeepsCount(newResults) ==
  /\ searchResults' = newResults
  /\ totalResults' = totalResults
  /\ searchMessage' =
       IF Len(newResults) > 0 THEN MsgFound(Len(newResults)) ELSE MsgNoResults
  /\ searchInstanceKey' = searchInstanceKey + 1
  /\ isSearching' = FALSE

\* lines 444-452 and the finally block
Publish(newResults) ==
  /\ searchResults' = newResults
  /\ totalResults' = Len(newResults)
  /\ searchMessage' =
       IF Len(newResults) > 0 THEN MsgFound(Len(newResults)) ELSE MsgNoResults
  /\ searchInstanceKey' = searchInstanceKey + 1
  /\ isSearching' = FALSE

\* the early return without the trim
ReturnsEarly_NoTrim(proxy, q) == proxy = 0 \/ q = <<>>

\* line 410: !pdfProxy || !searchQuery.trim()
ReturnsEarly(proxy, q) == proxy = 0 \/ Trim(q) = <<>>

\* the early return reporting a search without matches
EarlyMessage_NoResults(q) == IF Trim(q) # <<>> THEN MsgNoResults ELSE MsgNone

\* line 414
EarlyMessage(q) == IF Trim(q) # <<>> THEN MsgNotLoaded ELSE MsgNone

\* executeSearch that goes on from the results of the run before
ExecuteSearch_Accumulates ==
  /\ KeyAvailable
  /\ Len(tasks) < MaxTasks
  /\ LET t == [ epoch |-> docEpoch, proxy |-> pdfProxy,
                rawQuery |-> searchQuery,
                query |-> ToLowerCase(Trim(searchQuery)),
                i |-> 1, pc |-> "getPage", newResults |-> searchResults,
                later |-> <<>> ]
     IN
     IF ReturnsEarly(pdfProxy, searchQuery)
     THEN /\ searchResults' = <<>>
          /\ resultsFrom' = NoSearch
          /\ totalResults' = 0
          /\ currentResultIndex' = -1
          /\ searchMessage' = EarlyMessage(searchQuery)
          /\ searchInstanceKey' = searchInstanceKey + 1
          /\ isSearching' = FALSE
          /\ lastEv' = Ev("searchReturn", t, Pre)
          /\ UNCHANGED tasks
     ELSE IF ProxyNumPages(pdfProxy) = 0
     THEN \* the loop body never runs: no await, the call runs to its end
          /\ Publish(<<>>)
          /\ resultsFrom' = NoSearch
          /\ currentResultIndex' = -1
          /\ lastEv' = Ev("searchRan", t, Pre)
          /\ UNCHANGED tasks
     ELSE /\ isSearching' = TRUE
          /\ searchMessage' = MsgNone
          /\ searchResults' = <<>>
          /\ resultsFrom' = NoSearch
          /\ totalResults' = 0
          /\ currentResultIndex' = -1
          /\ tasks' = Append(NoteLater(tasks, t), t)
          /\ lastEv' = Ev("searchStart", t, Pre)
          /\ UNCHANGED searchInstanceKey
  /\ UNCHANGED << docs, padVars, chatVars, containerWidth,
                  docVars, searchQuery >>

\* executeSearch up to its first await
ExecuteSearch ==
  /\ KeyAvailable
  /\ Len(tasks) < MaxTasks
  /\ LET t == [ epoch |-> docEpoch, proxy |-> pdfProxy,
                rawQuery |-> searchQuery,
                query |-> ToLowerCase(Trim(searchQuery)),
                i |-> 1, pc |-> "getPage", newResults |-> <<>>,
                later |-> <<>> ]
     IN
     IF ReturnsEarly(pdfProxy, searchQuery)
     THEN /\ searchResults' = <<>>
          /\ resultsFrom' = NoSearch
          /\ totalResults' = 0
          /\ currentResultIndex' = -1
          /\ searchMessage' = EarlyMessage(searchQuery)
          /\ searchInstanceKey' = searchInstanceKey + 1
          /\ isSearching' = FALSE
          /\ lastEv' = Ev("searchReturn", t, Pre)
          /\ UNCHANGED tasks
     ELSE IF ProxyNumPages(pdfProxy) = 0
     THEN \* the loop body never runs: no await, the call runs to its end
          /\ Publish(<<>>)
          /\ resultsFrom' = NoSearch
          /\ currentResultIndex' = -1
          /\ lastEv' = Ev("searchRan", t, Pre)
          /\ UNCHANGED tasks
     ELSE /\ isSearching' = TRUE
          /\ searchMessage' = MsgNone
          /\ searchResults' = <<>>
          /\ resultsFrom' = NoSearch
          /\ totalResults' = 0
          /\ currentResultIndex' = -1
          /\ tasks' = Append(NoteLater(tasks, t), t)
          /\ lastEv' = Ev("searchStart", t, Pre)
          /\ UNCHANGED searchInstanceKey
  /\ UNCHANGED << docs, padVars, chatVars, containerWidth,
                  docVars, searchQuery >>

\* the search button is disabled until the document is loaded, during a
\* search and while the query is blank
ClickSearch ==
  /\ isDocumentLoaded /\ ~isSearching /\ Trim(searchQuery) # <<>>
  /\ ExecuteSearch

\* await pdfProxy.getPage(i) resolves
GetPageResolves(n) ==
  /\ n \in DOMAIN tasks
  /\ tasks[n].pc = "getPage"
  /\ tasks' = [tasks EXCEPT ![n].pc = "getTextContent"]
  /\ lastEv' = EvAt("getPage", tasks[n], Pre, n)
  /\ UNCHANGED << docs, padVars, chatVars, containerWidth,
                  docVars, searchQuery, searchResults, resultsFrom,
                  currentResultIndex, totalResults, isSearching,
                  searchMessage, searchInstanceKey >>

\* await page.getTextContent() resolves: the items of page i are scanned,
\* and after the last page the results are published
GetTextContentResolves(n) ==
  /\ n \in DOMAIN tasks
  /\ tasks[n].pc = "getTextContent"
  /\ LET t == tasks[n]
         newResults == ForEachItem(TextContentItems(t.proxy, t.i), 1, t.i,
                                   t.query, t.newResults)
     IN
     IF t.i + 1 <= ProxyNumPages(t.proxy)
     THEN /\ tasks' = [tasks EXCEPT ![n].i = t.i + 1, ![n].pc = "getPage",
                                    ![n].newResults = newResults]
          /\ lastEv' = EvAt("getTextContent", t, Pre, n)
          /\ UNCHANGED << searchResults, resultsFrom, currentResultIndex, totalResults,
                          isSearching, searchMessage, searchInstanceKey >>
     ELSE /\ Publish(newResults)
          /\ resultsFrom' = SearchOf(t, newResults)
          /\ currentResultIndex' =
               IF Len(newResults) > 0 THEN 0 ELSE currentResultIndex
          /\ tasks' = RemoveAt(tasks, n)
          /\ lastEv' = EvAt("searchDone", t, Pre, n)
  /\ UNCHANGED << docs, padVars, chatVars, containerWidth,
                  docVars, searchQuery >>

\* a rejection that leaves executeSearch uncaught
AwaitRejects_Propagates(n) ==
  /\ n \in DOMAIN tasks
  /\ tasks' = RemoveAt(ForgetLater(tasks, n), n)
  /\ lastEv' = EvAt("awaitRejects", tasks[n], Pre, n)
  /\ UNCHANGED << docs, padVars, chatVars, containerWidth,
                  docVars, searchQuery, searchResults, resultsFrom,
                  currentResultIndex, totalResults, searchInstanceKey,
                  searchMessage, isSearching >>

\* getPage or getTextContent rejects: catch and finally
AwaitRejects(n) ==
  /\ n \in DOMAIN tasks
  /\ searchMessage' = MsgError
  /\ isSearching' = FALSE
  /\ tasks' = RemoveAt(ForgetLater(tasks, n), n)
  /\ lastEv' = EvAt("awaitRejects", tasks[n], Pre, n)
  /\ UNCHANGED << docs, padVars, chatVars, containerWidth,
                  docVars, searchQuery, searchResults, resultsFrom,
                  currentResultIndex, totalResults, searchInstanceKey >>

(***************************************************************************)
(* Result navigation                                                       *)
(***************************************************************************)
\* the % of JavaScript: the remainder has the sign of the dividend
JsRem(a, b) == IF a >= 0 THEN a % b ELSE 0 - ((0 - a) % b)

\* the updater of line 463
NextIndex(prevIndex, total) == JsRem(prevIndex + 1, total)

\* previous without the "+ totalResults"
PreviousIndex_NoWrap(prevIndex, total) == JsRem(prevIndex - 1, total)

\* the updater of line 469
PreviousIndex(prevIndex, total) == JsRem(prevIndex - 1 + total, total)

\* next that starts at the first result when there is none
HandleNextResult_NoGuard ==
  /\ currentResultIndex' =
       IF totalResults > 0 THEN NextIndex(currentResultIndex, totalResults)
       ELSE 0
  /\ lastEv' = Ev("next", NoTask, Pre)
  /\ UNCHANGED << docs, padVars, chatVars, containerWidth,
                  docVars, searchQuery, searchResults,
                  resultsFrom, totalResults, isSearching, searchMessage,
                  searchInstanceKey, tasks >>

\* lines 461-465
HandleNextResult ==
  /\ currentResultIndex' =
       IF totalResults > 0 THEN NextIndex(currentResultIndex, totalResults)
       ELSE currentResultIndex
  /\ lastEv' = Ev("next", NoTask, Pre)
  /\ UNCHANGED << docs, padVars, chatVars, containerWidth,
                  docVars, searchQuery, searchResults, resultsFrom, totalResults,
                  isSearching, searchMessage, searchInstanceKey, tasks >>

\* lines 467-471
HandlePreviousResult ==
  /\ currentResultIndex' =
       IF totalResults > 0 THEN PreviousIndex(currentResultIndex, totalResults)
       ELSE currentResultIndex
  /\ lastEv' = Ev("previous", NoTask, Pre)
  /\ UNCHANGED << docs, padVars, chatVars, containerWidth,
                  docVars, searchQuery, searchResults, resultsFrom, totalResults,
                  isSearching, searchMessage, searchInstanceKey, tasks >>

\* the buttons are disabled until the document is loaded and without results
ClickNext ==
  /\ isDocumentLoaded /\ totalResults # 0
  /\ HandleNextResult

ClickPrevious ==
  /\ isDocumentLoaded /\ totalResults # 0
  /\ HandlePreviousResult

(***************************************************************************)
(* What the toolbar shows                                                  *)
(***************************************************************************)
\* the readout showing the 0-based cursor
PositionReadout_ZeroBased ==
  IF totalResults > 0
  THEN ToString(currentResultIndex) \o " of " \o ToString(totalResults)
  ELSE IF totalResults = 0 /\ searchQuery # <<>> THEN "0 of 0" ELSE ""

\* line 668
PositionReadout ==
  IF totalResults > 0
  THEN ToString(currentResultIndex + 1) \o " of " \o ToString(totalResults)
  ELSE IF totalResults = 0 /\ searchQuery # <<>> THEN "0 of 0" ELSE ""

(***************************************************************************)
(* customTextRendererWrapper: the runs of one text item.  A run is a piece *)
(* of the item text with the class of its <mark>, "none" for plain text.   *)
(***************************************************************************)
\* the characters escaped at line 516
RegexSpecials ==
  { ".", "*", "+", "?", "^", "$", "{", "}", "(", ")", "|", "[", "]", "\\" }

\* query.replace(/[.*+?^${}()|[\]\\]/g, '\\$&')
RECURSIVE EscapeRegExp(_)
EscapeRegExp(q) ==
  IF q = <<>> THEN <<>>
  ELSE (IF Head(q) \in RegexSpecials THEN <<"\\", Head(q)>> ELSE <<Head(q)>>)
         \o EscapeRegExp(Tail(q))

\* new RegExp(pattern, 'gi'): the atoms of a pattern.  A backslash makes the
\* next character literal and an unescaped "." matches any character; the
\* other metacharacters do not occur unescaped in the patterns of the model.
RECURSIVE RegExpAtoms(_)
RegExpAtoms(pattern) ==
  IF pattern = <<>> THEN <<>>
  ELSE IF Head(pattern) = "\\" /\ Len(pattern) >= 2
  THEN <<[any |-> FALSE, ch |-> pattern[2]]>>
         \o RegExpAtoms(SubSeq(pattern, 3, Len(pattern)))
  ELSE <<[any |-> Head(pattern) = ".", ch |-> Head(pattern)]>>
         \o RegExpAtoms(Tail(pattern))

\* the match without the i flag
MatchesAt_CaseSensitive(str, atoms, pos) ==
  /\ pos + Len(atoms) - 1 <= Len(str)
  /\ \A j \in 1..Len(atoms) :
       atoms[j].any \/ atoms[j].ch = str[pos + j - 1]

\* the atoms match str at offset pos, ignoring case
MatchesAt(str, atoms, pos) ==
  /\ pos + Len(atoms) - 1 <= Len(str)
  /\ \A j \in 1..Len(atoms) :
       atoms[j].any \/ LowerChar(atoms[j].ch) = LowerChar(str[pos + j - 1])

\* String.prototype.split with a pattern that is one capturing group: the
\* pieces between the matches alternate with the matched texts
RECURSIVE SplitCapture(_, _, _, _)
SplitCapture(str, atoms, start, pos) ==
  IF pos + Len(atoms) - 1 > Len(str)
  THEN <<SubSeq(str, start, Len(str))>>
  ELSE IF MatchesAt(str, atoms, pos)
  THEN <<SubSeq(str, start, pos - 1), SubSeq(str, pos, pos + Len(atoms) - 1)>>
         \o SplitCapture(str, atoms, pos + Len(atoms), pos + Len(atoms))
  ELSE SplitCapture(str, atoms, start, pos + 1)

\* the split on the query used as a pattern without escaping
SplitOnQuery_Unescaped(str, query) ==
  SplitCapture(str, RegExpAtoms(query), 1, 1)

\* lines 515-518
SplitOnQuery(str, query) ==
  SplitCapture(str, RegExpAtoms(EscapeRegExp(query)), 1, 1)

\* the lookup that compares the page number only
PageSpecificMatch_PageOnly(pageNumberToRender, itemIndex) ==
  \E r \in 1..Len(searchResults) :
    searchResults[r].pageNumber = pageNumberToRender

\* lines 503-505
PageSpecificMatch(pageNumberToRender, itemIndex) ==
  \E r \in 1..Len(searchResults) :
    /\ searchResults[r].pageNumber = pageNumberToRender
    /\ searchResults[r].textItemIndex = itemIndex

\* the test that compares the page number only
IsCurrentActiveMatch_PageOnly(pageNumberToRender, itemIndex) ==
  /\ currentResultIndex # -1
  /\ currentResultIndex + 1 \in DOMAIN searchResults
  /\ searchResults[currentResultIndex + 1].pageNumber = pageNumberToRender

\* lines 511-513
IsCurrentActiveMatch(pageNumberToRender, itemIndex) ==
  /\ currentResultIndex # -1
  /\ currentResultIndex + 1 \in DOMAIN searchResults
  /\ searchResults[currentResultIndex + 1].pageNumber = pageNumberToRender
  /\ searchResults[currentResultIndex + 1].textItemIndex = itemIndex

PlainRun(str) == [text |-> str, mark |-> "none"]

CustomTextRenderer(pageNumberToRender, str, itemIndex) ==
  IF Trim(searchQuery) = <<>> \/ Len(searchResults) = 0
  THEN <<PlainRun(str)>>
  ELSE IF ~PageSpecificMatch(pageNumberToRender, itemIndex)
  THEN <<PlainRun(str)>>
  ELSE LET query == Trim(searchQuery)
           parts == SplitOnQuery(str, query)
       IN [ index \in DOMAIN parts |->
              IF ToLowerCase(parts[index]) = ToLowerCase(query)
              THEN [ text |-> parts[index],
                     mark |-> IF IsCurrentActiveMatch(pageNumberToRender,
                                                      itemIndex)
                              THEN "current-search-highlight"
                              ELSE "search-highlight" ]
              ELSE PlainRun(parts[index]) ]

\* the text items of the pages the viewer renders, as (page, itemIndex + 1)
RenderedItems == IF isDocumentLoaded THEN
                   UNION { { <<i, k>> : k \in 1..Len(docs[pdfProxy][i]) } :
                           i \in 1..numPages }
                 ELSE {}

\* the runs of a rendered item
RunsOf(it) == CustomTextRenderer(it[1], docs[pdfProxy][it[1]][it[2]], it[2] - 1)

(***************************************************************************)
(* SignaturePadComponent                                                   *)
(***************************************************************************)
viewerVars ==
  << docs, containerWidth, docVars, searchQuery, searchResults, resultsFrom,
     currentResultIndex, totalResults, isSearching, searchMessage,
     searchInstanceKey, tasks >>

Strokes == {"line", "dot"}

\* signaturePad.isEmpty(): nothing was drawn since the last clear
IsEmpty(pad) == pad = <<>>

\* signaturePad.toDataURL(type): the image of the strokes in the given format
ToDataURL(pad, type) == [ mime |-> type, image |-> pad ]

AlertNoSignature == "Please provide a signature first."

\* the user draws on the canvas
DrawStroke(s) ==
  /\ Len(signaturePad) < MaxStrokes
  /\ signaturePad' = Append(signaturePad, s)
  /\ lastEv' = Ev("draw", NoTask, Pre)
  /\ UNCHANGED << viewerVars, chatVars, onSaveCalls, onClearCalls, alertCalls >>

\* lines 35-40
HandleClear ==
  /\ onClearCalls < MaxPresses
  /\ signaturePad' = <<>>
  /\ onClearCalls' = onClearCalls + 1
  /\ lastEv' = Ev("clear", NoTask, Pre)
  /\ UNCHANGED << viewerVars, chatVars, onSaveCalls, alertCalls >>

\* the save that hands over the image without looking at the pad
HandleSave_NoEmptyTest ==
  /\ Len(onSaveCalls) + Len(alertCalls) < MaxPresses
  /\ onSaveCalls' = Append(onSaveCalls, ToDataURL(signaturePad, "image/png"))
  /\ UNCHANGED alertCalls
  /\ lastEv' = Ev("save", NoTask, Pre)
  /\ UNCHANGED << viewerVars, chatVars, signaturePad, onClearCalls >>

\* lines 42-50
HandleSave ==
  /\ Len(onSaveCalls) + Len(alertCalls) < MaxPresses
  /\ IF ~IsEmpty(signaturePad)
     THEN /\ onSaveCalls' =
               Append(onSaveCalls, ToDataURL(signaturePad, "image/png"))
          /\ UNCHANGED alertCalls
     ELSE /\ alertCalls' = Append(alertCalls, AlertNoSignature)
          /\ UNCHANGED onSaveCalls
  /\ lastEv' = Ev("save", NoTask, Pre)
  /\ UNCHANGED << viewerVars, chatVars, signaturePad, onClearCalls >>

NextPad ==
  \/ \E s \in Strokes : DrawStroke(s)
  \/ HandleClear
  \/ HandleSave

SpecPad == Init /\ [][NextPad]_vars

(***************************************************************************)
(* useStore: the chat messages                                             *)
(***************************************************************************)
Digits == << "0", "1", "2", "3", "4", "5", "6", "7", "8", "9" >>

\* Number.prototype.toString(): the decimal digits of n
RECURSIVE NatToString(_)
NatToString(n) ==
  IF n < Len(Digits) THEN << Digits[n + 1] >>
  ELSE NatToString(n \div Len(Digits)) \o << Digits[(n % Len(Digits)) + 1] >>

Roles == {"user", "ai"}
Texts == {"hi", "Would you like me to elaborate?"}

\* a millisecond passes
Tick ==
  /\ now < MaxClock
  /\ now' = now + 1
  /\ lastEv' = Ev("tick", NoTask, Pre)
  /\ UNCHANGED << viewerVars, padVars, messages >>

\* lines 23-32
AddMessage(message) ==
  /\ Len(messages) < MaxMessages
  /\ LET newMessage == [ role |-> message.role, text |-> message.text,
                         id |-> NatToString(now), timestamp |-> now ]
     IN messages' = Append(messages, newMessage)
  /\ lastEv' = Ev("addMessage", NoTask, Pre)
  /\ UNCHANGED << viewerVars, padVars, now >>

NextChat ==
  \/ Tick
  \/ \E role \in Roles, text \in Texts :
       AddMessage([ role |-> role, text |-> text ])

SpecChat == Init /\ [][NextChat]_vars

(***************************************************************************)
(* The viewer as the user drives it                                        *)
(***************************************************************************)
Next ==
  \/ \E d \in DocIds : SetCurrentDocument(d)
  \/ OnDocumentLoadStart
  \/ OnDocumentLoadSuccess
  \/ OnDocumentLoadError
  \/ HandleZoomIn
  \/ HandleZoomOut
  \/ \E q \in Queries : TypeQuery(q)
  \/ ClickSearch
  \/ \E n \in 1..MaxTasks : GetPageResolves(n)
  \/ \E n \in 1..MaxTasks : GetTextContentResolves(n)
  \/ \E n \in 1..MaxTasks : AwaitRejects(n)
  \/ ClickNext
  \/ ClickPrevious

Spec == Init /\ [][Next]_vars

\* the viewer with the window resized and the document printed as well
NextFrame ==
  \/ Next
  \/ \E w \in ClientWidths : UpdateContainerWidth(w)
  \/ HandlePrint

SpecFrame == Init /\ [][NextFrame]_vars

\* every request of a suspended invocation is answered in the end: its
\* promise resolves or rejects
Answered(n) == GetPageResolves(n) \/ GetTextContentResolves(n) \/ AwaitRejects(n)

\* the steps that touch the search: zoom and result navigation leave the
\* suspended invocations, isSearching and the status message alone
NextLive ==
  \/ \E d \in DocIds : SetCurrentDocument(d)
  \/ OnDocumentLoadStart
  \/ OnDocumentLoadSuccess
  \/ OnDocumentLoadError
  \/ \E q \in Queries : TypeQuery(q)
  \/ ClickSearch
  \/ \E n \in 1..MaxTasks : Answered(n)

SpecLive ==
  Init /\ [][NextLive]_vars /\ \A n \in 1..MaxTasks : WF_vars(Answered(n))

(***************************************************************************)
(* The handlers called directly.  The disabled attributes of the search    *)
(* input and of the search button keep the early return of executeSearch   *)
(* from running when the user drives the viewer; here executeSearch,       *)
(* handleSearchInputChange, handleNextResult and handlePreviousResult are  *)
(* also called as functions, in any state.                                 *)
(***************************************************************************)
NextDirect ==
  \/ Next
  \/ ExecuteSearch
  \/ \E q \in Queries : HandleSearchInputChange(q)
  \/ HandleNextResult
  \/ HandlePreviousResult

SpecDirect == Init /\ [][NextDirect]_vars

(***************************************************************************)
(* The scan of executeSearch over every small corpus: one document, loaded,*)
(* with the query typed.                                                   *)
(***************************************************************************)
InitScan ==
  /\ docs \in { <<c>> : c \in ScanCorpora }
  /\ currentDocument = 1
  /\ loadPending = 0
  /\ docEpoch = 1
  /\ numPages = ProxyNumPages(1)
  /\ pdfProxy = 1
  /\ scale = ScaleDefault
  /\ isDocumentLoaded = TRUE
  /\ isLoading = FALSE
  /\ error = FALSE
  /\ containerWidth = ContainerWidthDefault
  /\ InitPad
  /\ InitChat
  /\ searchQuery \in ScanQueries
  /\ searchResults = <<>>
  /\ resultsFrom = NoSearch
  /\ currentResultIndex = -1
  /\ totalResults = 0
  /\ isSearching = FALSE
  /\ searchMessage = MsgNone
  /\ searchInstanceKey = 0
  /\ tasks = <<>>
  /\ lastEv = Ev("inputChange", [NoTask EXCEPT !.rawQuery = searchQuery],
                 <<0, -1, 0>>)

NextScan ==
  \/ ClickSearch
  \/ \E n \in 1..MaxTasks : GetPageResolves(n)
  \/ \E n \in 1..MaxTasks : GetTextContentResolves(n)

SpecScan == InitScan /\ [][NextScan]_vars

(***************************************************************************)
(* The highlight renderer over every small item text and query: one       *)
(* document of one page with one text item, loaded, with the query typed.  *)
(***************************************************************************)
InitRender ==
  /\ docs \in { << << <<str>> >> >> : str \in RenderTexts }
  /\ currentDocument = 1
  /\ loadPending = 0
  /\ docEpoch = 1
  /\ numPages = ProxyNumPages(1)
  /\ pdfProxy = 1
  /\ scale = ScaleDefault
  /\ isDocumentLoaded = TRUE
  /\ isLoading = FALSE
  /\ error = FALSE
  /\ containerWidth = ContainerWidthDefault
  /\ InitPad
  /\ InitChat
  /\ searchQuery \in RenderQueries
  /\ searchResults = <<>>
  /\ resultsFrom = NoSearch
  /\ currentResultIndex = -1
  /\ totalResults = 0
  /\ isSearching = FALSE
  /\ searchMessage = MsgNone
  /\ searchInstanceKey = 0
  /\ tasks = <<>>
  /\ lastEv = Ev("inputChange", [NoTask EXCEPT !.rawQuery = searchQuery],
                 <<0, -1, 0>>)

NextRender ==
  \/ ClickSearch
  \/ \E n \in 1..MaxTasks : GetPageResolves(n)
  \/ \E n \in 1..MaxTasks : GetTextContentResolves(n)
  \/ ClickNext

SpecRender == InitRender /\ [][NextRender]_vars

(***************************************************************************)
(* The same search run again: one document of the small corpora, loaded,   *)
(* with the query typed; the query is never edited, the cursor is moved    *)
(* between the runs.                                                       *)
(***************************************************************************)
NextRerun ==
  \/ ClickSearch
  \/ \E n \in 1..MaxTasks : GetPageResolves(n)
  \/ \E n \in 1..MaxTasks : GetTextContentResolves(n)
  \/ ClickNext
  \/ ClickPrevious

SpecRerun == InitScan /\ [][NextRerun]_vars

(***************************************************************************)
(* Properties                                                              *)
(***************************************************************************)
\* the run of executeSearch that published its results in the last step
Published == lastEv.op \in {"searchDone", "searchRan"}

\* the text items of the document a run worked on, as (page, itemIndex + 1)
ItemsOf(p) ==
  UNION { { <<i, k>> : k \in 1..Len(docs[p][i]) } : i \in 1..Len(docs[p]) }

InResults(i, k) ==
  \E r \in 1..Len(searchResults) :
    /\ searchResults[r].pageNumber = i
    /\ searchResults[r].textItemIndex = k - 1

\* C1 as stated: after executeSearch completes on a loaded document with the
\* non-blank query q, an item is in the result set iff lowercase(item text)
\* contains lowercase(q), also for a q with leading or trailing whitespace.
C1_MatchIffContainsQuery ==
  Published =>
    \A it \in ItemsOf(lastEv.proxy) :
      InResults(it[1], it[2]) <=>
        Includes(ToLowerCase(docs[lastEv.proxy][it[1]][it[2]]),
                 ToLowerCase(lastEv.rawQuery))

\* C1 amended: an item is in the result set iff lowercase(item text)
\* contains lowercase(trim(q)), q being the query executeSearch was called
\* with, and every result names an item of the document.
C1_MatchIffContainsTrimmedQuery ==
  Published =>
    /\ \A it \in ItemsOf(lastEv.proxy) :
         InResults(it[1], it[2]) <=>
           Includes(ToLowerCase(docs[lastEv.proxy][it[1]][it[2]]),
                    ToLowerCase(Trim(lastEv.rawQuery)))
    /\ \A r \in 1..Len(searchResults) :
         <<searchResults[r].pageNumber, searchResults[r].textItemIndex + 1>>
           \in ItemsOf(lastEv.proxy)

\* a completed search over two pages whose padded, mixed-case query matches
\* some items and not others
C1_Witness ==
  /\ Published
  /\ lastEv.rawQuery # Trim(lastEv.rawQuery)
  /\ ToLowerCase(lastEv.rawQuery) # lastEv.rawQuery
  /\ Len(docs[lastEv.proxy]) = 2
  /\ Len(searchResults) >= 2
  /\ Len(searchResults) < Cardinality(ItemsOf(lastEv.proxy))

\* C2: the result set published by executeSearch is strictly ascending in
\* (pageNumber, textItemIndex): page ascending, item index ascending within a
\* page.
C2_ResultsAscending ==
  Published =>
    \A a, b \in 1..Len(searchResults) :
      a < b =>
        \/ searchResults[a].pageNumber < searchResults[b].pageNumber
        \/ /\ searchResults[a].pageNumber = searchResults[b].pageNumber
           /\ searchResults[a].textItemIndex < searchResults[b].textItemIndex

\* results on two pages, two of them on the same page
C2_Witness ==
  /\ Published
  /\ Len(searchResults) >= 3
  /\ searchResults[1].pageNumber = searchResults[2].pageNumber
  /\ searchResults[1].pageNumber # searchResults[Len(searchResults)].pageNumber

\* C3: in every reachable state a non-empty result set has
\* 0 <= currentResultIndex < length, and an empty result set has
\* currentResultIndex = -1.
C3_CursorValid ==
  /\ Len(searchResults) > 0 =>
       currentResultIndex >= 0 /\ currentResultIndex < Len(searchResults)
  /\ Len(searchResults) = 0 => currentResultIndex = -1

RECURSIVE TimesNext(_, _, _)
TimesNext(i, n, count) ==
  IF count = 0 THEN i ELSE TimesNext(NextIndex(i, n), n, count - 1)

RECURSIVE TimesPrevious(_, _, _)
TimesPrevious(i, n, count) ==
  IF count = 0 THEN i ELSE TimesPrevious(PreviousIndex(i, n), n, count - 1)

\* C4: with n >= 1 results and the cursor at index i, next moves the cursor
\* to (i+1) mod n and previous to (i-1+n) mod n; n times next, or n times
\* previous, lead back to i, and previous from 0 lands on n-1.
C4_NextPreviousWrap ==
  /\ (lastEv.op = "next" /\ lastEv.preIndex \in 0..(lastEv.preTotal - 1)) =>
       /\ currentResultIndex = (lastEv.preIndex + 1) % lastEv.preTotal
       /\ TimesNext(lastEv.preIndex, lastEv.preTotal, lastEv.preTotal)
            = lastEv.preIndex
  /\ (lastEv.op = "previous" /\ lastEv.preIndex \in 0..(lastEv.preTotal - 1)) =>
       /\ currentResultIndex =
            (lastEv.preIndex - 1 + lastEv.preTotal) % lastEv.preTotal
       /\ lastEv.preIndex = 0 => currentResultIndex = lastEv.preTotal - 1
       /\ TimesPrevious(lastEv.preIndex, lastEv.preTotal, lastEv.preTotal)
            = lastEv.preIndex

\* previous from the first of at least three results
C4_Witness ==
  /\ lastEv.op = "previous"
  /\ lastEv.preIndex = 0
  /\ lastEv.preTotal >= 3
  /\ currentResultIndex = lastEv.preTotal - 1

\* the query input was set to the empty string in the last step
QueryCleared == lastEv.op = "inputChange" /\ lastEv.rawQuery = <<>>

\* C5: setting the query to the empty string leaves the result set empty,
\* the result count 0, the cursor unset and the status message empty,
\* whatever was searched before and wherever the cursor was.
C5_ClearQueryResets ==
  QueryCleared =>
    /\ searchQuery = <<>>
    /\ searchResults = <<>>
    /\ totalResults = 0
    /\ currentResultIndex = -1
    /\ searchMessage = MsgNone

\* the query is cleared with the cursor on the second of several results
C5_Witness ==
  /\ QueryCleared
  /\ lastEv.preTotal >= 2
  /\ lastEv.preIndex >= 1
  /\ searchResults = <<>>

\* C6: a search started on a previous document never publishes its results
\* after the document has changed.
C6_StaleResultsDiscarded ==
  Published => lastEv.epoch = docEpoch

\* C7: when text extraction fails for one page the search does not end in
\* the error status: the other pages are scanned and the normal status is
\* reported.
C7_PageFailureTolerated ==
  lastEv.op = "awaitRejects" => searchMessage # MsgError

\* C8: when a search run fails, the status message is the error message, the
\* result set is empty, the result count 0 and the cursor unset.
C8_FailureLeavesNoResults ==
  lastEv.op = "awaitRejects" =>
    /\ searchMessage = MsgError
    /\ searchResults = <<>>
    /\ totalResults = 0
    /\ currentResultIndex = -1

\* executeSearch was called in the last step, with the document proxy and
\* the query recorded in lastEv
SearchCalled == lastEv.op \in {"searchReturn", "searchStart", "searchRan"}

\* C9: executeSearch with a non-blank query and no document proxy starts no
\* extraction, leaves the result set empty and the cursor unset, and sets
\* the status message "Document not loaded.", which differs from
\* "No results found.".
C9_DocumentNotLoaded ==
  (SearchCalled /\ lastEv.proxy = 0 /\ Trim(lastEv.rawQuery) # <<>>) =>
    /\ lastEv.op = "searchReturn"
    /\ Len(tasks) = lastEv.preTasks
    /\ searchResults = <<>>
    /\ totalResults = 0
    /\ currentResultIndex = -1
    /\ searchMessage = MsgNotLoaded
    /\ searchMessage # MsgNoResults
    /\ ~isSearching

\* the call clears the results a search of the previous document published
C9_Witness ==
  /\ SearchCalled
  /\ lastEv.proxy = 0
  /\ Trim(lastEv.rawQuery) # <<>>
  /\ lastEv.preTotal > 0
  /\ searchMessage = MsgNotLoaded

\* C10: executeSearch with an empty or whitespace-only query starts no page
\* extraction and ends with the result set empty, the cursor unset, the
\* status message empty and isSearching false.
C10_BlankQueryNoSearch ==
  (SearchCalled /\ Trim(lastEv.rawQuery) = <<>>) =>
    /\ lastEv.op = "searchReturn"
    /\ Len(tasks) = lastEv.preTasks
    /\ searchResults = <<>>
    /\ totalResults = 0
    /\ currentResultIndex = -1
    /\ searchMessage = MsgNone
    /\ ~isSearching

\* a whitespace-only query is executed on a loaded document that shows results
C10_Witness ==
  /\ SearchCalled
  /\ lastEv.rawQuery = <<" ">>
  /\ lastEv.proxy # 0
  /\ lastEv.preTotal > 0
  /\ searchResults = <<>>
  /\ searchMessage = MsgNone

\* the query input was edited to an empty or whitespace-only string while
\* results were shown
QueryBlanked ==
  /\ lastEv.op = "inputChange"
  /\ Trim(lastEv.rawQuery) = <<>>
  /\ lastEv.preTotal > 0

\* C11: whenever the query becomes empty or whitespace-only by editing the
\* input after a search has produced results, the result set is empty, the cursor unset and the status message
\* empty.
C11_BlankQueryClears ==
  QueryBlanked =>
    /\ searchResults = <<>>
    /\ currentResultIndex = -1
    /\ searchMessage = MsgNone

\* the items of the document of the last run that match its query
MatchingItems ==
  { it \in ItemsOf(lastEv.proxy) :
      Includes(ToLowerCase(docs[lastEv.proxy][it[1]][it[2]]),
               ToLowerCase(Trim(lastEv.rawQuery))) }

\* C12: after a search over a loaded document completes and finds n matching
\* items the status message is "<n> result(s) found." when n > 0 and
\* "No results found." when n = 0; a document without pages gives n = 0 and
\* "No results found.".
C12_StatusMessage ==
  Published =>
    /\ Cardinality(MatchingItems) > 0 =>
         searchMessage =
           ToString(Cardinality(MatchingItems)) \o " result(s) found."
    /\ Cardinality(MatchingItems) = 0 => searchMessage = "No results found."
    /\ Len(docs[lastEv.proxy]) = 0 => searchMessage = "No results found."

\* a search of the document without pages
C12_Witness ==
  /\ Published
  /\ Len(docs[lastEv.proxy]) = 0
  /\ searchMessage = "No results found."
  /\ searchResults = <<>>

\* C13: in every reachable state with n > 0 results the position readout is
\* "k of n" with k = cursor + 1 and 1 <= k <= n; with n = 0 it is "0 of 0"
\* for a non-empty query and blank otherwise; right after a search that
\* found n > 0 results it is "1 of n".
C13_PositionReadout ==
  /\ Len(searchResults) > 0 =>
       \E k \in 1..Len(searchResults) :
         /\ k = currentResultIndex + 1
         /\ PositionReadout =
              ToString(k) \o " of " \o ToString(Len(searchResults))
  /\ Len(searchResults) = 0 =>
       PositionReadout = (IF searchQuery # <<>> THEN "0 of 0" ELSE "")
  /\ (Published /\ Len(searchResults) > 0) =>
       PositionReadout = "1 of " \o ToString(Len(searchResults))

\* the cursor is on the last of three results
C13_Witness ==
  /\ Len(searchResults) = 3
  /\ currentResultIndex = 2
  /\ PositionReadout = "3 of 3"

\* a run of executeSearch started on the current document is suspended
SearchRunning == \E n \in DOMAIN tasks : tasks[n].epoch = docEpoch

\* C14: from the moment a new search starts until it finishes the result set
\* is empty and the cursor unset, so that the result set never holds a result
\* of an earlier search.
C14_ClearedWhileSearching ==
  SearchRunning =>
    /\ searchResults = <<>>
    /\ totalResults = 0
    /\ currentResultIndex = -1

\* C20: no two entries of the result set have the same
\* (pageNumber, textItemIndex) pair, and a published result count is the
\* number of matching items, however often the query occurs in an item.
C20_OneResultPerItem ==
  /\ \A a, b \in 1..Len(searchResults) :
       ( /\ searchResults[a].pageNumber = searchResults[b].pageNumber
         /\ searchResults[a].textItemIndex = searchResults[b].textItemIndex )
       => a = b
  /\ Published => totalResults = Cardinality(MatchingItems)

\* the results of query "a" on document 1, whose item "A a" holds it twice
C20_Witness ==
  /\ Published
  /\ lastEv.proxy = 1
  /\ ToLowerCase(Trim(lastEv.rawQuery)) = <<"a">>
  /\ InResults(1, 3)
  /\ totalResults = 3

\* the classes of the marks of a rendered item
MarksOf(it) ==
  { RunsOf(it)[n].mark : n \in DOMAIN RunsOf(it) } \ {"none"}

\* the rendered item is the result at the cursor
AtCursor(it) ==
  /\ currentResultIndex \in 0..(Len(searchResults) - 1)
  /\ searchResults[currentResultIndex + 1].pageNumber = it[1]
  /\ searchResults[currentResultIndex + 1].textItemIndex = it[2] - 1

\* the text of the rendered item contains the trimmed query, ignoring case
HoldsQuery(it) ==
  Includes(ToLowerCase(docs[pdfProxy][it[1]][it[2]]),
           ToLowerCase(Trim(searchQuery)))

\* C16: for an item of the result set and a non-blank query, every
\* occurrence of the query in the item is marked current-search-highlight
\* iff the item is the result at the cursor, and search-highlight otherwise;
\* the marks of one item are never mixed.
C16_ActiveIffAtCursor ==
  \A it \in RenderedItems :
    (InResults(it[1], it[2]) /\ Trim(searchQuery) # <<>>) =>
      /\ MarksOf(it) \subseteq
           { IF AtCursor(it) THEN "current-search-highlight"
                             ELSE "search-highlight" }
      /\ HoldsQuery(it) => MarksOf(it) # {}

\* the cursor is on an item with two occurrences while another item of the
\* same page carries ordinary marks
C16_Witness ==
  /\ isDocumentLoaded
  /\ \E it, other \in RenderedItems :
       /\ it[1] = other[1]
       /\ AtCursor(it)
       /\ Cardinality({ n \in DOMAIN RunsOf(it) :
                          RunsOf(it)[n].mark = "current-search-highlight" }) = 2
       /\ MarksOf(other) = {"search-highlight"}

\* C17: the renderer returns the item text as one unannotated run whenever
\* the query is blank, the result set is empty or the item is not in the
\* result set; only an item of the result set ever carries a mark.
C17_PlainUnlessResult ==
  \A it \in RenderedItems :
    /\ ( \/ Trim(searchQuery) = <<>>
         \/ Len(searchResults) = 0
         \/ ~InResults(it[1], it[2]) )
       => RunsOf(it) = << [ text |-> docs[pdfProxy][it[1]][it[2]],
                            mark |-> "none" ] >>
    /\ MarksOf(it) # {} => InResults(it[1], it[2])

\* with results shown, an item that holds the query but is not in the
\* result set stays plain
C17_Witness ==
  /\ Len(searchResults) > 0
  /\ Trim(searchQuery) # <<>>
  /\ \E it \in RenderedItems :
       /\ ~InResults(it[1], it[2])
       /\ HoldsQuery(it)
       /\ MarksOf(it) = {}

\* offset of run n in the item text
RECURSIVE RunStart(_, _)
RunStart(runs, n) ==
  IF n = 1 THEN 1 ELSE RunStart(runs, n - 1) + Len(runs[n - 1].text)

\* the marked pieces of a rendered item, as (offset, length)
MarkedSpans(it) ==
  { <<RunStart(RunsOf(it), n), Len(RunsOf(it)[n].text)>> :
      n \in { m \in DOMAIN RunsOf(it) : RunsOf(it)[m].mark # "none" } }

\* the occurrences of q in str read as literal text, ignoring case, taken
\* from the left without overlap
RECURSIVE LiteralSpans(_, _, _)
LiteralSpans(str, q, pos) ==
  IF pos + Len(q) - 1 > Len(str) THEN {}
  ELSE IF ToLowerCase(SubSeq(str, pos, pos + Len(q) - 1)) = ToLowerCase(q)
  THEN {<<pos, Len(q)>>} \cup LiteralSpans(str, q, pos + Len(q))
  ELSE LiteralSpans(str, q, pos + 1)

HasRegexSpecial(q) == \E k \in 1..Len(q) : q[k] \in RegexSpecials

\* C19: for a query with regex-special characters the renderer marks exactly
\* the literal case-insensitive occurrences of the query in an item of the
\* result set, the occurrences that made the item a match, and nothing else.
C19_QueryIsLiteral ==
  \A it \in RenderedItems :
    (InResults(it[1], it[2]) /\ HasRegexSpecial(Trim(searchQuery))) =>
      /\ MarkedSpans(it) =
           LiteralSpans(docs[pdfProxy][it[1]][it[2]], Trim(searchQuery), 1)
      /\ MarkedSpans(it) # {}

\* query "a." on the item "aa.": the only mark is the literal "a." at offset 2
C19_Witness ==
  /\ Trim(searchQuery) = <<"a", ".">>
  /\ docs[pdfProxy][1][1] = <<"a", "a", ".">>
  /\ InResults(1, 1)
  /\ MarkedSpans(<<1, 1>>) = {<<2, 2>>}

\* result r names an item of the document its search ran on
IdentifiesItem(r) ==
  /\ resultsFrom.proxy \in DocIds
  /\ r.pageNumber \in 1..ProxyNumPages(resultsFrom.proxy)
  /\ r.textItemIndex + 1 \in
       1..Len(TextContentItems(resultsFrom.proxy, r.pageNumber))

\* the lower-cased text of the item r names holds the lower-cased, trimmed q
ItemHolds(r, q) ==
  Includes(ToLowerCase(TextContentItems(resultsFrom.proxy,
                                        r.pageNumber)[r.textItemIndex + 1]),
           ToLowerCase(Trim(q)))

\* C18 as stated: in every state every result identifies an item of the
\* searched document whose text holds the current query, also after the
\* query was edited without a new search.
C18_ResultsHoldCurrentQuery ==
  \A k \in DOMAIN searchResults :
    IdentifiesItem(searchResults[k]) /\ ItemHolds(searchResults[k], searchQuery)

\* C18: in every state every result identifies an item of the searched
\* document whose text holds the query its search was executed with.
C18_ResultsHoldSearchedQuery ==
  \A k \in DOMAIN searchResults :
    /\ IdentifiesItem(searchResults[k])
    /\ ItemHolds(searchResults[k], resultsFrom.rawQuery)

\* the query was edited to another non-empty string and the results of the
\* search before the edit are still shown
C18_Witness ==
  /\ lastEv.op = "inputChange"
  /\ searchResults # <<>>
  /\ Trim(searchQuery) # <<>>
  /\ ToLowerCase(Trim(searchQuery)) # ToLowerCase(Trim(resultsFrom.rawQuery))
  /\ \E k \in DOMAIN searchResults : ~ItemHolds(searchResults[k], searchQuery)

\* a search that published in the last step had a later search started on
\* the same document load while it was pending; that search has published
\* before, and no search of that document load is pending any more
ResolvedAfterLater ==
  /\ lastEv.op = "searchDone"
  /\ lastEv.later # <<>>
  /\ lastEv.epoch = docEpoch
  /\ ~SearchRunning

\* the items of the document that match the query of the later-started search
LaterMatches ==
  { it \in ItemsOf(lastEv.proxy) :
      Includes(ToLowerCase(docs[lastEv.proxy][it[1]][it[2]]),
               ToLowerCase(Trim(lastEv.later[1]))) }

\* C15: when a search is executed again while an earlier search on the same
\* document is pending, then once both have resolved, in either order, the
\* result set, count, cursor and status message are those of the
\* later-started search.
C15_LatestSearchKept ==
  ResolvedAfterLater =>
    /\ \A it \in ItemsOf(lastEv.proxy) :
         InResults(it[1], it[2]) <=> it \in LaterMatches
    /\ totalResults = Cardinality(LaterMatches)
    /\ currentResultIndex = IF Cardinality(LaterMatches) > 0 THEN 0 ELSE -1
    /\ searchMessage =
         IF Cardinality(LaterMatches) > 0
         THEN MsgFound(Cardinality(LaterMatches)) ELSE MsgNoResults

\* the matching items of document p for the raw query q, from the first item
\* of the first page to the last item of the last page
RECURSIVE ResultsInOrder(_, _, _, _)
ResultsInOrder(p, q, i, k) ==
  IF i > Len(docs[p]) THEN <<>>
  ELSE IF k > Len(docs[p][i]) THEN ResultsInOrder(p, q, i + 1, 1)
  ELSE (IF Includes(ToLowerCase(docs[p][i][k]), ToLowerCase(Trim(q)))
        THEN << [ pageIndex |-> i - 1, pageNumber |-> i,
                  textItemIndex |-> k - 1 ] >>
        ELSE <<>>) \o ResultsInOrder(p, q, i, k + 1)

\* the outcome every completed run of the query on the document has to show
SameOutcome(cursor) ==
  LET expected == ResultsInOrder(pdfProxy, searchQuery, 1, 1) IN
  /\ searchResults = expected
  /\ totalResults = Len(expected)
  /\ searchMessage =
       IF Len(expected) > 0 THEN MsgFound(Len(expected)) ELSE MsgNoResults
  /\ currentResultIndex = cursor

\* C21 as stated: every run of the same query on the same unchanged document
\* ends with the same ordered result set, count and status message and with
\* the cursor at index 0.
C21_RerunSameOutcomeCursorZero ==
  Published => SameOutcome(0)

\* C21: every run of the same query on the same unchanged document ends with
\* the same ordered result set, count and status message, and with the cursor
\* at index 0 when there are results and unset when there are none, whatever
\* the cursor was before the run.
C21_RerunSameOutcome ==
  Published => SameOutcome(IF searchResults # <<>> THEN 0 ELSE -1)

\* the second run of a query with two or more results has completed
C21_Witness ==
  /\ Published
  /\ searchInstanceKey = 2
  /\ totalResults >= 2
  /\ currentResultIndex = 0

\* the step ends a run of executeSearch
EndsSearch ==
  lastEv'.op \in {"searchDone", "searchRan", "searchReturn", "awaitRejects"}

\* the step is an edit of the query input to the empty string
ClearsQuery == lastEv'.op = "inputChange" /\ lastEv'.rawQuery = <<>>

\* C22: searchInstanceKey never decreases and is strictly increased by every
\* executed search, whether it ends with results, without results, with the
\* short-circuit or with an error, and by every clearing of the query.
C22_KeyBumped ==
  [][ /\ searchInstanceKey' >= searchInstanceKey
      /\ (EndsSearch \/ ClearsQuery) => searchInstanceKey' > searchInstanceKey
    ]_vars

\* the status messages a finished search leaves
TerminalMessages ==
  {MsgNoResults, MsgError} \cup
  { MsgFound(n) : n \in 1..Cardinality(ItemsOf(lastEv.proxy)) }

\* the oldest suspended search has finished in the last step
SearchFinished ==
  /\ lastEv.op \in {"searchDone", "awaitRejects"}
  /\ lastEv.pos = 1
  /\ ~isSearching
  /\ searchMessage \in TerminalMessages

\* C23: when every page-text request resolves or rejects in the end, every
\* started search finishes in a state with isSearching false and a terminal
\* status message, and isSearching never stays true for ever.
C23_SearchFinishes ==
  /\ (tasks # <<>>) ~> SearchFinished
  /\ isSearching ~> ~isSearching

\* a search whose page request rejected has finished
C23_Witness ==
  /\ SearchFinished
  /\ lastEv.op = "awaitRejects"
  /\ searchMessage = MsgError
  /\ tasks = <<>>

\* the steps that may move or reset the cursor
CursorSteps ==
  {"next", "previous", "searchStart", "searchDone", "searchRan",
   "searchReturn", "setCurrentDocument", "loadSuccess"}

\* the step edits the query input to a non-empty string
EditsQuery == lastEv'.op = "inputChange" /\ lastEv'.rawQuery # <<>>

\* C24: the cursor changes only through next, previous and the resets of
\* search start and completion, query clear and document change or load;
\* an edit of the query to another non-empty string, zoom in and out, resize
\* and print leave the cursor and the result set unchanged.
C24_CursorFrame ==
  [][ /\ currentResultIndex' # currentResultIndex =>
           lastEv'.op \in CursorSteps \/ ClearsQuery
      /\ (EditsQuery \/ lastEv'.op \in {"zoomIn", "zoomOut", "resize", "print"})
           => UNCHANGED << currentResultIndex, searchResults >>
    ]_vars

\* the query was edited to another non-empty string while the cursor stood
\* on the second result, and the cursor and the results are still there
C24_Witness ==
  /\ lastEv.op = "inputChange"
  /\ lastEv.rawQuery # <<>>
  /\ lastEv.rawQuery # resultsFrom.rawQuery
  /\ currentResultIndex = 1
  /\ Len(searchResults) >= 2

\* the step is a call of handleNextResult or handlePreviousResult
Navigates == lastEv'.op \in {"next", "previous"}

\* C25: next and previous do nothing when the result set is empty, so an
\* unset cursor stays unset, and in every state they leave the result set,
\* the result count, the query, the status message and searchInstanceKey
\* unchanged.
C25_NavigationFrame ==
  [][ Navigates =>
        /\ UNCHANGED << searchResults, totalResults, searchQuery,
                        searchMessage, searchInstanceKey >>
        /\ searchResults = <<>> => UNCHANGED currentResultIndex
    ]_vars

\* next was called on an empty result set and the cursor is still unset
C25_Witness ==
  /\ lastEv.op = "next"
  /\ searchResults = <<>>
  /\ lastEv.preIndex = -1
  /\ currentResultIndex = -1

\* the step is a press of Save Signature
Saves == lastEv'.op = "save"

\* C26: a press of Save Signature calls onSave exactly once, with the PNG
\* data URL of the pad, if and only if the pad is not empty; on an empty pad
\* onSave is not called and the user is alerted with
\* 'Please provide a signature first.'.
C26_SaveIffNotEmpty ==
  [][ Saves =>
        IF signaturePad # <<>>
        THEN /\ onSaveCalls' =
                  Append(onSaveCalls,
                         [ mime |-> "image/png", image |-> signaturePad ])
             /\ alertCalls' = alertCalls
        ELSE /\ onSaveCalls' = onSaveCalls
             /\ alertCalls' =
                  Append(alertCalls, "Please provide a signature first.")
    ]_vars

\* Save was pressed on an empty pad and, after drawing, on a signed pad
C26_Witness ==
  /\ lastEv.op = "save"
  /\ alertCalls = << "Please provide a signature first." >>
  /\ Len(onSaveCalls) = 1
  /\ onSaveCalls[1].image = signaturePad
  /\ signaturePad # <<>>

\* C27: in every reachable state the stored result count totalResults is the
\* length of the result set searchResults.
C27_CountIsLength ==
  totalResults = Len(searchResults)

\* next has moved the cursor through a result set of two or more results
C27_Witness ==
  /\ lastEv.op = "next"
  /\ Len(searchResults) >= 2
  /\ totalResults = Len(searchResults)
  /\ currentResultIndex = 1

\* C28: at most one search is in flight at any time, and while a search is
\* in flight isSearching is true, which disables the query input and the
\* search button; also across a document change during a search.
C28_OneSearchInFlight ==
  /\ Len(tasks) <= 1
  /\ tasks # <<>> => isSearching

\* the texts of the runs put together in order
RECURSIVE Concat(_)
Concat(runs) ==
  IF runs = <<>> THEN <<>> ELSE Head(runs).text \o Concat(Tail(runs))

C30_DistinctIdsInCallOrder ==
  /\ [](\A i, j \in DOMAIN messages :
          i # j => messages[i].id # messages[j].id)
  /\ [][ lastEv'.op = "addMessage" =>
           /\ Len(messages') = Len(messages) + 1
           /\ SubSeq(messages', 1, Len(messages)) = messages
       ]_vars

====
